---- MODULE Spec2Model ----
(***************************************************************************)
(* Snipaste Nano (src/main.py): the capture overlay, the application       *)
(* object that owns it, and the floating window with its canvas, modelled  *)
(* as state machines driven by the toolkit's input events.                 *)
(*                                                                         *)
(* Conventions.  A Python None is the empty tuple.  A QPoint is a pair     *)
(* <<x, y>>.  A QRect is the record of its two inclusive corners           *)
(* [x1, y1, x2, y2], as Qt stores it, so width = x2 - x1 + 1.  A device    *)
(* pixel ratio is a number of quarters (ratio4 = 6 is 1.5).  Each handler  *)
(* runs to completion on the event thread, so a handler together with the  *)
(* slots its signals call is one action.  ev records the handler that ran  *)
(* last and the values it computed.                                        *)
(***************************************************************************)
EXTENDS Integers, Sequences, FiniteSets, TLC

VARIABLES
    _overlay,            \* SnipasteNanoApp._overlay: None or <<index into overlays>>
    _capture_pixmap,     \* SnipasteNanoApp._capture_pixmap: None or a pixmap
    _capture_screen,     \* SnipasteNanoApp._capture_screen: None or a screen
    _floating_windows,   \* SnipasteNanoApp._floating_windows: sequence of windows
    overlays,            \* every CaptureOverlay constructed so far, in order
    fw,                  \* the FloatingWindow under the pointer, with its canvas,
                         \* toolbar and size button (None: none is followed)
    pointer,             \* the mouse: the buttons held and the widget they grab
    clipboard,           \* QApplication.clipboard(): None or the image set last
    ev                   \* the handler that ran last

appvars == <<_overlay, _capture_pixmap, _capture_screen, _floating_windows>>
fwvars == <<fw, pointer, clipboard>>
vars == <<_overlay, _capture_pixmap, _capture_screen, _floating_windows, overlays,
          fw, pointer, clipboard, ev>>

None == << >>

-----------------------------------------------------------------------------
(* Bounds and input sets *)

\* CaptureOverlay instances constructed in one run.
MaxOverlays == 2

LeftButton == "LeftButton"
RightButton == "RightButton"
MouseButtons == {LeftButton, RightButton}

Key_Escape == "Key_Escape"
Key_Space == "Key_Space"
Key_A == "Key_A"
OverlayKeys == {Key_Escape, Key_A}

\* Pointer positions delivered to the overlay.  A pointer held down keeps
\* reporting after it leaves the screen, so some lie outside it.
Points ==
    { <<-5, -5>>, <<0, 0>>, <<10, 10>>, <<59, 49>>, <<50, 50>>, <<150, 120>>,
      <<100, 100>>, <<102, 103>>, <<104, 104>> }

\* The screens of the machine: logical size and device pixel ratio.
Screens ==
    { [w |-> 160, h |-> 130, ratio4 |-> 4],
      [w |-> 160, h |-> 130, ratio4 |-> 6],
      [w |-> 160, h |-> 130, ratio4 |-> 8] }

-----------------------------------------------------------------------------
(* Arithmetic *)

Max(a, b) == IF a >= b THEN a ELSE b
Min(a, b) == IF a <= b THEN a ELSE b
Abs(a) == IF a < 0 THEN -a ELSE a

\* Python's int() of the quotient n / d of integers, d > 0: truncation to zero.
TruncDiv(n, d) == IF n >= 0 THEN n \div d ELSE -((-n) \div d)

\* The denominator of ratio4.
RatioDen == 4

\* int(v * ratio) of _handle_capture.
ScaleByRatio(v, ratio4) == TruncDiv(v * ratio4, RatioDen)

-----------------------------------------------------------------------------
(* QRect, as Qt 6 computes it *)

\* QRect(topLeft, bottomRight): both corners belong to the rectangle.
QRect(p1, p2) == [x1 |-> p1[1], y1 |-> p1[2], x2 |-> p2[1], y2 |-> p2[2]]

\* QRect(x, y, width, height).
QRectXYWH(x, y, w, h) == [x1 |-> x, y1 |-> y, x2 |-> x + w - 1, y2 |-> y + h - 1]

\* QRect(): the null rectangle.
NullRect == [x1 |-> 0, y1 |-> 0, x2 |-> -1, y2 |-> -1]

width(r) == r.x2 - r.x1 + 1
height(r) == r.y2 - r.y1 + 1
isNull(r) == r.x2 = r.x1 - 1 /\ r.y2 = r.y1 - 1

\* QRect::normalized(): a side whose far corner lies before its near corner is
\* swapped, and the swapped corners become exclusive.
normalized(r) ==
    [x1 |-> IF r.x2 < r.x1 THEN r.x2 + 1 ELSE r.x1,
     y1 |-> IF r.y2 < r.y1 THEN r.y2 + 1 ELSE r.y1,
     x2 |-> IF r.x2 < r.x1 THEN r.x1 - 1 ELSE r.x2,
     y2 |-> IF r.y2 < r.y1 THEN r.y1 - 1 ELSE r.y2]

\* QRect::intersected(): the null rectangle when the two do not overlap.
intersected(a, b) ==
    LET l1 == IF a.x2 < a.x1 - 1 THEN a.x2 + 1 ELSE a.x1
        r1 == IF a.x2 < a.x1 - 1 THEN a.x1 - 1 ELSE a.x2
        l2 == IF b.x2 < b.x1 - 1 THEN b.x2 + 1 ELSE b.x1
        r2 == IF b.x2 < b.x1 - 1 THEN b.x1 - 1 ELSE b.x2
        t1 == IF a.y2 < a.y1 - 1 THEN a.y2 + 1 ELSE a.y1
        b1 == IF a.y2 < a.y1 - 1 THEN a.y1 - 1 ELSE a.y2
        t2 == IF b.y2 < b.y1 - 1 THEN b.y2 + 1 ELSE b.y1
        b2 == IF b.y2 < b.y1 - 1 THEN b.y1 - 1 ELSE b.y2
    IN  IF isNull(a) \/ isNull(b) THEN NullRect
        ELSE IF l1 > r2 \/ l2 > r1 THEN NullRect
        ELSE IF t1 > b2 \/ t2 > b1 THEN NullRect
        ELSE [x1 |-> Max(l1, l2), y1 |-> Max(t1, t2),
              x2 |-> Min(r1, r2), y2 |-> Min(b1, b2)]

\* A rectangle as the tuple (x, y, width, height).
XYWH(r) == <<r.x1, r.y1, width(r), height(r)>>

-----------------------------------------------------------------------------
(* QPixmap *)

\* screen.grabWindow(0) when it succeeds: the screen's pixels.
GrabbedPixmap(screen) ==
    [w |-> ScaleByRatio(screen.w, screen.ratio4),
     h |-> ScaleByRatio(screen.h, screen.ratio4),
     ratio4 |-> screen.ratio4, null |-> FALSE]

\* screen.grabWindow(0) when it fails: a null pixmap.
NullPixmap == [w |-> 0, h |-> 0, ratio4 |-> RatioDen, null |-> TRUE]

-----------------------------------------------------------------------------
(* CaptureOverlay *)

\* CaptureOverlay.__init__
NewOverlay(screen, pixmap) ==
    [_screen |-> screen, _pixmap |-> pixmap, _origin |-> None, _current |-> None,
     visible |-> TRUE, deleteLater |-> FALSE, emitted |-> << >>]

\* Mutant: the far corner is left out of the rectangle.
_selection_rect_Exclusive(o) ==
    IF o._origin = None \/ o._current = None THEN None
    ELSE QRectXYWH(Min(o._origin[1], o._current[1]), Min(o._origin[2], o._current[2]),
                   Abs(o._current[1] - o._origin[1]), Abs(o._current[2] - o._origin[2]))

\* CaptureOverlay._selection_rect
_selection_rect(o) ==
    IF o._origin = None \/ o._current = None THEN None
    ELSE normalized(QRect(o._origin, o._current))

\* The least width and height of a selection that is committed.
MinSelection == 4

\* Mutant: the test forgets the height.
RejectsSelection_WidthOnly(rect) ==
    rect = None \/ width(rect) < MinSelection

\* The test of mouseReleaseEvent that turns a release into a cancellation.
RejectsSelection(rect) ==
    rect = None \/ width(rect) < MinSelection \/ height(rect) < MinSelection

\* A signal emission as the overlay's record of it: the signal's name (ev
\* holds the rectangle that captured carries).
Signal(name, rect) == name

\* The handler that ran last: its name, the overlay it ran on (0: none) and
\* what it did.  A release of the primary button adds the overlay's _origin
\* and _current and the rectangle _selection_rect made of them; _handle_capture
\* adds the pixmap it cut from, the rectangle it scaled the selection to, the
\* region it cut and the pixmap it made a window of.
Event(op, id, outcome) ==
    [op |-> op, id |-> id, outcome |-> outcome, origin |-> None, current |-> None,
     rect |-> None, pixmap |-> None, scaled |-> None, region |-> None,
     cropped |-> None]

ReleaseEvent(o, i, outcome) ==
    [Event("mouseReleaseEvent", i, outcome) EXCEPT
        !.origin = o._origin, !.current = o._current, !.rect = _selection_rect(o)]

-----------------------------------------------------------------------------
(* SnipasteNanoApp *)

\* An overlay after hide() and deleteLater(): the event loop destroys the
\* object when the running handler returns to it, so its fields are gone
\* before the next event; the record of what it emitted stays.
Destroyed(o) ==
    [_screen |-> None, _pixmap |-> None, _origin |-> None, _current |-> None,
     visible |-> FALSE, deleteLater |-> TRUE, emitted |-> o.emitted]

\* _clear_overlay: its effect on the overlays (hide, deleteLater).
ClearedOverlays(ovs) ==
    IF _overlay # None
    THEN [ovs EXCEPT ![_overlay[1]] = Destroyed(@)]
    ELSE ovs

\* QWidget.close() of overlay i.
ClosedOverlay(ovs, i) == [ovs EXCEPT ![i] = [@ EXCEPT !.visible = FALSE]]

\* overlay i emits a signal.
EmittedBy(ovs, i, s) == [ovs EXCEPT ![i] = [@ EXCEPT !.emitted = Append(@, s)]]

\* FloatingWindow.__init__ as the application sees it: the n-th window made,
\* shown.  (ev holds the pixmap it was made of.)
NewFloatingWindow(n, pixmap) == [id |-> n, open |-> TRUE]

\* Mutant: the position is scaled, the size is not.
ScaledRect_PositionOnly(rect, ratio4) ==
    QRectXYWH(ScaleByRatio(rect.x1, ratio4), ScaleByRatio(rect.y1, ratio4),
              width(rect), height(rect))

\* The rectangle _handle_capture builds from the logical selection.
ScaledRect(rect, ratio4) ==
    QRectXYWH(ScaleByRatio(rect.x1, ratio4), ScaleByRatio(rect.y1, ratio4),
              ScaleByRatio(width(rect), ratio4), ScaleByRatio(height(rect), ratio4))

\* The pixmap's own rectangle.
PixmapBounds(pixmap) == QRectXYWH(0, 0, pixmap.w, pixmap.h)

\* The test of _handle_capture that discards the capture.
EmptyRegion(r) == width(r) < 1 \/ height(r) < 1

\* pixmap.copy(region) with the ratio set on it.
Cropped(pixmap, region) ==
    [w |-> width(region), h |-> height(region), ratio4 |-> pixmap.ratio4, null |-> FALSE]

\* _show_floating
_show_floating(pixmap) ==
    _floating_windows' =
        Append(_floating_windows, NewFloatingWindow(Len(_floating_windows) + 1, pixmap))

\* Mutant: the overlay is dropped, the grabbed pixmap and screen are kept.
_clear_overlay_KeepsCapture(i, event) ==
    /\ overlays' = ClosedOverlay(ClearedOverlays(EmittedBy(overlays, i, Signal("cancelled", None))), i)
    /\ _overlay' = None
    /\ UNCHANGED <<_capture_pixmap, _capture_screen, _floating_windows>>
    /\ ev' = event

\* _clear_overlay, called as the slot of overlay i's cancelled signal; then
\* the overlay closes itself.
_clear_overlay(i, event) ==
    /\ overlays' = ClosedOverlay(ClearedOverlays(EmittedBy(overlays, i, Signal("cancelled", None))), i)
    /\ _overlay' = None
    /\ _capture_pixmap' = None
    /\ _capture_screen' = None
    /\ UNCHANGED _floating_windows
    /\ ev' = event

\* _handle_capture, called as the slot of overlay i's captured signal; then the
\* overlay closes itself.  regrab is what a second grab would return; it is
\* read only when the stored pixmap is missing.
_handle_capture(i, rect, regrab) ==
    LET stored == _capture_pixmap
        pixmap == IF stored = None \/ stored.null THEN regrab ELSE stored
        scaled == ScaledRect(rect, pixmap.ratio4)
        region == intersected(scaled, PixmapBounds(pixmap))
    IN  /\ overlays' = ClosedOverlay(ClearedOverlays(EmittedBy(overlays, i, Signal("captured", rect))), i)
        /\ _overlay' = None
        /\ _capture_pixmap' = None
        /\ _capture_screen' = None
        /\ IF pixmap.null
           THEN /\ UNCHANGED _floating_windows
                /\ ev' = ReleaseEvent(overlays[i], i, "captured")
           ELSE IF EmptyRegion(region)
           THEN /\ UNCHANGED _floating_windows
                /\ ev' = [ReleaseEvent(overlays[i], i, "captured") EXCEPT
                              !.pixmap = pixmap, !.scaled = scaled, !.region = region]
           ELSE /\ _show_floating(Cropped(pixmap, region))
                /\ ev' = [ReleaseEvent(overlays[i], i, "captured") EXCEPT
                              !.pixmap = pixmap, !.scaled = scaled, !.region = region,
                              !.cropped = Cropped(pixmap, region)]

\* Mutant: start_capture stores the screen and the pixmap before it tests the
\* pixmap.
start_capture_StoresNullGrab(screen, grabbed) ==
    IF _overlay # None
    THEN /\ UNCHANGED <<appvars, overlays>>
         /\ ev' = Event("start_capture", 0, "ignored")
    ELSE IF screen = None
    THEN /\ UNCHANGED <<appvars, overlays>>
         /\ ev' = Event("start_capture", 0, "no_screen")
    ELSE IF grabbed.null
    THEN /\ _capture_pixmap' = grabbed
         /\ _capture_screen' = screen
         /\ UNCHANGED <<_overlay, _floating_windows, overlays>>
         /\ ev' = Event("start_capture", 0, "null_grab")
    ELSE /\ _capture_pixmap' = grabbed
         /\ _capture_screen' = screen
         /\ overlays' = Append(overlays, NewOverlay(screen, grabbed))
         /\ _overlay' = <<Len(overlays) + 1>>
         /\ UNCHANGED _floating_windows
         /\ ev' = Event("start_capture", Len(overlays) + 1, "started")

\* Mutant: start_capture without its guard on _overlay.
start_capture_NoGuard(screen, grabbed) ==
    IF screen = None
    THEN /\ UNCHANGED <<appvars, overlays>>
         /\ ev' = Event("start_capture", 0, "no_screen")
    ELSE IF grabbed.null
    THEN /\ UNCHANGED <<appvars, overlays>>
         /\ ev' = Event("start_capture", 0, "null_grab")
    ELSE /\ _capture_pixmap' = grabbed
         /\ _capture_screen' = screen
         /\ overlays' = Append(overlays, NewOverlay(screen, grabbed))
         /\ _overlay' = <<Len(overlays) + 1>>
         /\ UNCHANGED _floating_windows
         /\ ev' = Event("start_capture", Len(overlays) + 1, "started")

\* start_capture.  screen is what screenAt / primaryScreen answer (None: no
\* screen), grabbed is what grabWindow returns.
start_capture(screen, grabbed) ==
    IF _overlay # None
    THEN /\ UNCHANGED <<appvars, overlays>>
         /\ ev' = Event("start_capture", 0, "ignored")
    ELSE IF screen = None
    THEN /\ UNCHANGED <<appvars, overlays>>
         /\ ev' = Event("start_capture", 0, "no_screen")
    ELSE IF grabbed.null
    THEN /\ UNCHANGED <<appvars, overlays>>
         /\ ev' = Event("start_capture", 0, "null_grab")
    ELSE /\ _capture_pixmap' = grabbed
         /\ _capture_screen' = screen
         /\ overlays' = Append(overlays, NewOverlay(screen, grabbed))
         /\ _overlay' = <<Len(overlays) + 1>>
         /\ UNCHANGED _floating_windows
         /\ ev' = Event("start_capture", Len(overlays) + 1, "started")

-----------------------------------------------------------------------------
(* CaptureOverlay handlers.  The toolkit delivers input only to a widget    *)
(* that is shown.                                                           *)

CaptureOverlay_mousePressEvent(i, button, pos) ==
    /\ overlays[i].visible
    /\ IF button # LeftButton
       THEN /\ UNCHANGED <<appvars, overlays>>
            /\ ev' = Event("mousePressEvent", i, "ignored")
       ELSE /\ overlays' = [overlays EXCEPT ![i] = [@ EXCEPT !._origin = pos, !._current = pos]]
            /\ UNCHANGED appvars
            /\ ev' = Event("mousePressEvent", i, "origin")

CaptureOverlay_mouseMoveEvent(i, pos) ==
    /\ overlays[i].visible
    /\ IF overlays[i]._origin = None
       THEN /\ UNCHANGED <<appvars, overlays>>
            /\ ev' = Event("mouseMoveEvent", i, "ignored")
       ELSE /\ overlays' = [overlays EXCEPT ![i] = [@ EXCEPT !._current = pos]]
            /\ UNCHANGED appvars
            /\ ev' = Event("mouseMoveEvent", i, "current")

CaptureOverlay_mouseReleaseEvent(i, button, regrab) ==
    /\ overlays[i].visible
    /\ IF button # LeftButton
       THEN /\ UNCHANGED <<appvars, overlays>>
            /\ ev' = Event("mouseReleaseEvent", i, "ignored")
       ELSE LET rect == _selection_rect(overlays[i])
            IN  IF RejectsSelection(rect)
                THEN _clear_overlay(i, ReleaseEvent(overlays[i], i, "cancelled"))
                ELSE _handle_capture(i, rect, regrab)

CaptureOverlay_keyPressEvent(i, key) ==
    /\ overlays[i].visible
    /\ IF key = Key_Escape
       THEN _clear_overlay(i, Event("keyPressEvent", i, "cancelled"))
       ELSE /\ UNCHANGED <<appvars, overlays>>
            /\ ev' = Event("keyPressEvent", i, "ignored")

-----------------------------------------------------------------------------
(* The application's specification *)

Init ==
    /\ _overlay = None
    /\ _capture_pixmap = None
    /\ _capture_screen = None
    /\ _floating_windows = << >>
    /\ overlays = << >>
    /\ fw = None
    /\ pointer = [held |-> {}, target |-> "none"]
    /\ clipboard = None
    /\ ev = Event("__init__", 0, "constructed")

\* The F1 hotkey.  Within the bounds: it is not pressed once MaxOverlays
\* overlays were constructed and the last one is gone.
Hotkey ==
    /\ _overlay # None \/ Len(overlays) < MaxOverlays
    /\ \/ start_capture(None, NullPixmap)
       \/ \E s \in Screens : start_capture(s, NullPixmap)
       \/ \E s \in Screens : start_capture(s, GrabbedPixmap(s))
    /\ UNCHANGED fwvars

OverlayPress ==
    /\ \E i \in DOMAIN overlays, b \in MouseButtons, p \in Points :
           CaptureOverlay_mousePressEvent(i, b, p)
    /\ UNCHANGED fwvars

OverlayMove ==
    /\ \E i \in DOMAIN overlays, p \in Points : CaptureOverlay_mouseMoveEvent(i, p)
    /\ UNCHANGED fwvars

OverlayRelease ==
    /\ \E i \in DOMAIN overlays, b \in MouseButtons :
           CaptureOverlay_mouseReleaseEvent(i, b, NullPixmap)
    /\ UNCHANGED fwvars

OverlayKey ==
    /\ \E i \in DOMAIN overlays, k \in OverlayKeys : CaptureOverlay_keyPressEvent(i, k)
    /\ UNCHANGED fwvars

Next == Hotkey \/ OverlayPress \/ OverlayMove \/ OverlayRelease \/ OverlayKey

Spec == Init /\ [][Next]_vars

-----------------------------------------------------------------------------
(* Properties of the capture overlay and the application *)

Emitted(i) == overlays[i].emitted

\* C1: captured is emitted only with a rectangle at least 4 wide and 4 high,
\* and a release of the primary button over a selection rectangle less than 4
\* wide or less than 4 high emits cancelled and never captured.
C1_CapturedOnlyFromFourByFour ==
    /\ ev.outcome = "captured" =>
           /\ width(ev.rect) >= 4
           /\ height(ev.rect) >= 4
    /\ (/\ ev.op = "mouseReleaseEvent"
        /\ ev.outcome # "ignored"
        /\ \/ ev.rect = None
           \/ width(ev.rect) < 4
           \/ height(ev.rect) < 4) =>
           /\ ev.outcome = "cancelled"
           /\ Emitted(ev.id) = <<"cancelled">>
    /\ \A i \in DOMAIN overlays :
           "captured" \in {Emitted(i)[k] : k \in DOMAIN Emitted(i)} =>
               Emitted(i) = <<"captured">>

\* C1's case: the press at (100,100) released at (102,103).
C1_Witness ==
    /\ ev.op = "mouseReleaseEvent"
    /\ ev.origin = <<100, 100>>
    /\ ev.current = <<102, 103>>
    /\ ev.outcome = "cancelled"
    /\ XYWH(ev.rect) = <<100, 100, 3, 4>>

\* C2: an overlay emits one of captured / cancelled, once: none while it is
\* shown, exactly one when it is gone; the emission clears the application's
\* overlay, pixmap and screen, and a gone overlay is scheduled for deletion
\* and is no longer the application's overlay.
C2_OneSignalPerOverlay ==
    /\ \A i \in DOMAIN overlays :
           /\ Len(Emitted(i)) <= 1
           /\ overlays[i].visible => (Emitted(i) = << >> /\ _overlay = <<i>>)
           /\ ~overlays[i].visible =>
                  /\ Len(Emitted(i)) = 1
                  /\ Emitted(i)[1] \in {"captured", "cancelled"}
                  /\ overlays[i].deleteLater
                  /\ _overlay # <<i>>
    /\ ev.outcome \in {"captured", "cancelled"} =>
           /\ _overlay = None
           /\ _capture_pixmap = None
           /\ _capture_screen = None
           /\ ~overlays[ev.id].visible
    /\ _overlay = None => (_capture_pixmap = None /\ _capture_screen = None)

\* C2's case: two overlays have lived, the first cancelled by Escape in the
\* middle of a drag or by a release, the second committed.
C2_Witness ==
    /\ Len(overlays) = 2
    /\ Emitted(1) = <<"cancelled">>
    /\ Emitted(2) = <<"captured">>
    /\ ev.outcome = "captured"
    /\ _overlay = None

C3_Side(o, c) == IF c >= o THEN <<o, c - o + 1>> ELSE <<c + 1, o - c - 1>>

C4_Reversed(o) == [o EXCEPT !._origin = o._current, !._current = o._origin]

\* C4: the selection rectangle has non-negative width and height and is the
\* same from origin O and current C as from origin C and current O, so the
\* commit / cancel decision does not depend on the direction of the drag.
C4_SelectionRectSymmetric ==
    \A i \in DOMAIN overlays :
        overlays[i]._origin # None =>
            LET a == _selection_rect(overlays[i])
                b == _selection_rect(C4_Reversed(overlays[i]))
            IN  /\ width(a) >= 0
                /\ height(a) >= 0
                /\ a = b
                /\ RejectsSelection(a) <=> RejectsSelection(b)

\* C5: at most one overlay is shown at a time, and a hotkey trigger that
\* arrives while an overlay is open is ignored before any screen grab and
\* leaves _overlay, _capture_pixmap, _capture_screen, the windows and every
\* overlay as they were.
C5_SecondCaptureIsNoOp ==
    /\ [](Cardinality({i \in DOMAIN overlays : overlays[i].visible}) <= 1)
    /\ [][(_overlay # None /\ ev'.op = "start_capture") =>
              /\ ev'.outcome = "ignored"
              /\ UNCHANGED <<appvars, overlays>>]_vars

\* C5's case: the hotkey was ignored in the middle of a drag.
C5_Witness ==
    /\ ev.op = "start_capture"
    /\ ev.outcome = "ignored"
    /\ _overlay = <<1>>
    /\ overlays[1].visible
    /\ overlays[1]._origin # None
    /\ overlays[1]._current # overlays[1]._origin
    /\ Len(overlays) = 1

\* int(v * ratio), stated from the ratio in quarters: v * ratio4 / 4 with the
\* fraction dropped.
C10_IsScaled(c, v, ratio4) ==
    IF v >= 0 THEN 4 * c <= v * ratio4 /\ v * ratio4 < 4 * (c + 1)
    ELSE 4 * c >= v * ratio4 /\ v * ratio4 > 4 * (c - 1)

\* The overlap of the closed intervals [a1, a2] and [0, n - 1], as the pair
\* of its ends; empty when the first end exceeds the second.
C10_Overlap(a1, a2, n) == <<Max(a1, 0), Min(a2, n - 1)>>

\* C10: on commit each component of the selection rectangle is multiplied by
\* the pixmap's device pixel ratio (ratio 2: (10,10,50,40) gives
\* (20,20,100,80)), the result is intersected with the pixmap's rectangle,
\* and exactly one floating window is made of that region; when the region
\* is less than 1 wide or high no window is made.  No other handler changes
\* the windows.
C10_CaptureRegion ==
    /\ [][ev'.outcome = "captured" =>
            LET r == ev'.rect
                s == ev'.scaled
                g == ev'.region
                pm == ev'.pixmap
                ox == C10_Overlap(s.x1, s.x2, pm.w)
                oy == C10_Overlap(s.y1, s.y2, pm.h)
                empty == ox[1] > ox[2] \/ oy[1] > oy[2]
            IN  /\ pm = _capture_pixmap
                /\ C10_IsScaled(s.x1, r.x1, pm.ratio4)
                /\ C10_IsScaled(s.y1, r.y1, pm.ratio4)
                /\ C10_IsScaled(width(s), width(r), pm.ratio4)
                /\ C10_IsScaled(height(s), height(r), pm.ratio4)
                /\ (pm.ratio4 = 8 /\ XYWH(r) = <<10, 10, 50, 40>>) =>
                       XYWH(s) = <<20, 20, 100, 80>>
                /\ IF empty
                   THEN /\ width(g) < 1 /\ height(g) < 1
                        /\ _floating_windows' = _floating_windows
                        /\ ev'.cropped = None
                   ELSE /\ g = [x1 |-> ox[1], y1 |-> oy[1], x2 |-> ox[2], y2 |-> oy[2]]
                        /\ Len(_floating_windows') = Len(_floating_windows) + 1
                        /\ SubSeq(_floating_windows', 1, Len(_floating_windows)) = _floating_windows
                        /\ _floating_windows'[Len(_floating_windows')].open
                        /\ ev'.cropped.w = ox[2] - ox[1] + 1
                        /\ ev'.cropped.h = oy[2] - oy[1] + 1
                        /\ ev'.cropped.ratio4 = pm.ratio4]_vars
    /\ [][ev'.outcome # "captured" => _floating_windows' = _floating_windows]_vars

\* C10's case: ratio 2 and the selection (10,10,50,40), made into a window.
C10_Witness ==
    /\ ev.outcome = "captured"
    /\ ev.pixmap.ratio4 = 8
    /\ XYWH(ev.rect) = <<10, 10, 50, 40>>
    /\ XYWH(ev.scaled) = <<20, 20, 100, 80>>
    /\ XYWH(ev.region) = <<20, 20, 100, 80>>
    /\ Len(_floating_windows) = 1

\* C10's other case: a committed selection that lies off the pixmap; no window.
C10_WitnessEmpty ==
    /\ ev.outcome = "captured"
    /\ ev.region = NullRect
    /\ _floating_windows = << >>

-----------------------------------------------------------------------------
(* Exact arithmetic for the scale factor.                                   *)
(*                                                                          *)
(* The scale is a product of the factors 1.1 and 0.9 clamped to [0.2, 5.0]; *)
(* it is kept exactly, as the decimal fraction n / 10^k, with n a natural   *)
(* number written in limbs of four decimal digits, least significant first  *)
(* (the empty sequence is 0).  The rounding of Python's binary floating     *)
(* point is not modelled.                                                   *)

\* The value of one limb position.
Base == 10000

RECURSIVE BigTimes(_, _, _)
\* n * m + carry, for a natural number m.
BigTimes(n, m, carry) ==
    IF n = << >>
    THEN IF carry = 0 THEN << >>
         ELSE <<carry % Base>> \o BigTimes(<< >>, m, carry \div Base)
    ELSE <<(Head(n) * m + carry) % Base>>
             \o BigTimes(Tail(n), m, (Head(n) * m + carry) \div Base)

BigMul(n, m) == IF m = 0 THEN << >> ELSE BigTimes(n, m, 0)

\* The natural number i.
Big(i) == BigMul(<<1>>, i)

RECURSIVE BigMulPow10(_, _)
\* n * 10^k
BigMulPow10(n, k) == IF k = 0 THEN n ELSE BigMulPow10(BigMul(n, 10), k - 1)

RECURSIVE BigCmpFrom(_, _, _)
BigCmpFrom(a, b, i) ==
    IF i = 0 THEN 0
    ELSE IF a[i] < b[i] THEN -1
    ELSE IF a[i] > b[i] THEN 1
    ELSE BigCmpFrom(a, b, i - 1)

\* -1, 0 or 1 as a < b, a = b or a > b.
BigCmp(a, b) ==
    IF Len(a) < Len(b) THEN -1
    ELSE IF Len(a) > Len(b) THEN 1
    ELSE BigCmpFrom(a, b, Len(a))

\* The decimal fraction num / 10^k.
Real(num, k) == [n |-> Big(num), k |-> k]

\* a < b
RealLess(a, b) == BigCmp(BigMulPow10(a.n, b.k), BigMulPow10(b.n, a.k)) < 0

\* a * (num / 10), the product with a one-digit decimal factor.
RealTimesTenths(a, num) == [n |-> BigMul(a.n, num), k |-> a.k + 1]

\* Python's int(v * s) for a natural number v and a scale 0 <= s <= 5.
IntOfProduct(v, s) ==
    LET product == BigMul(s.n, v)
        unit == BigMulPow10(Big(1), s.k)
    IN  CHOOSE q \in 0..(5 * v) :
            /\ BigCmp(BigMul(unit, q), product) <= 0
            /\ BigCmp(product, BigMul(unit, q + 1)) < 0

\* The whole part of p / s for a natural number p and a scale s >= 0.2.
WholeQuotient(p, s) ==
    LET dividend == BigMulPow10(Big(p), s.k)
    IN  CHOOSE q \in 0..(5 * p) :
            /\ BigCmp(BigMul(s.n, q), dividend) <= 0
            /\ BigCmp(dividend, BigMul(s.n, q + 1)) < 0

\* Python's int(v / s): the quotient with its fraction dropped, toward zero.
IntOfQuotient(v, s) == IF v >= 0 THEN WholeQuotient(v, s) ELSE -WholeQuotient(-v, s)

-----------------------------------------------------------------------------
(* FloatingWindow, with its CanvasWidget, SizeButton and toolbar, as one    *)
(* record.  The window's position is not kept: no handler reads it.  The    *)
(* field did is what the running handler did besides: whether it called     *)
(* self.move, the point it handed to start_draw or draw_to, the segment it  *)
(* painted.                                                                 *)

\* Wheel notches counted since the scale was last 1.0, 5.0 or 0.2.
MaxNotches == 18

\* Line segments painted into one image.
MaxSegments == 2

\* The image sizes followed: the least width a committed selection gives, and
\* a height that differs from it.
ImageSizes == { <<4, 6>> }

\* Pointer positions over the canvas, in its coordinates; a grabbed pointer
\* reports positions left of, above and beyond it.
CanvasPoints == { <<0, 0>>, <<-3, 7>>, <<21, -1>> }

\* A pointer position over the window beside the canvas (the toolbar strip).
WindowPoints == { <<5, 12>> }

\* event.angleDelta().y() of a wheel event: a notch up, a notch down, none.
WheelDeltas == {120, -120, 0}

\* The colours offered by the popup that are followed.
Red == "#dc1e1e"
Blue == "#1e78ff"
PopupColors == {Red, Blue}

NoEffects == [moved |-> FALSE, point |-> None, segment |-> None]

\* FloatingWindow.__init__ (which builds the SizeButton and CanvasWidget and
\* ends with _apply_scale at scale 1.0), for the n-th window and its pixmap.
FloatingWindow(n, pixmap) ==
    [id |-> n, open |-> TRUE,
     _drag_offset |-> None,
     _base_pixmap |-> pixmap,
     _image |-> [w |-> pixmap.w, h |-> pixmap.h, segments |-> 0],
     _scale |-> Real(1, 0),
     _pen_active |-> FALSE,
     _brush_size |-> 6,
     _brush_color |-> Red,
     _drawing |-> FALSE,
     _last_point |-> None,
     _color_popup |-> None,
     _toolbar_visible |-> FALSE,
     _pen_button_checked |-> FALSE,
     _size_button |-> [_size |-> 6, _color |-> Red],
     _canvas |-> [_scale |-> Real(1, 0), _pen_active |-> FALSE,
                  size |-> <<pixmap.w, pixmap.h>>],
     did |-> NoEffects]

\* QWidget.move
move(w) == [w EXCEPT !.did.moved = TRUE]

\* QWidget.close
close(w) == [w EXCEPT !.open = FALSE]

\* FloatingWindow._perform_drag
_perform_drag(w) == IF w._drag_offset = None THEN w ELSE move(w)

\* FloatingWindow._begin_drag
_begin_drag(w, local_pos) == _perform_drag([w EXCEPT !._drag_offset = local_pos])

\* Mutant: end_draw flips the stroke flag.
end_draw_Toggles(w) ==
    [w EXCEPT !._drawing = ~w._drawing, !._last_point = None]

\* FloatingWindow.end_draw
end_draw(w) == [w EXCEPT !._drawing = FALSE, !._last_point = None]

\* FloatingWindow.start_draw
start_draw(w, pos) ==
    LET w1 == [w EXCEPT !.did.point = pos]
    IN  IF ~w1._pen_active THEN w1
        ELSE [w1 EXCEPT !._drawing = TRUE, !._last_point = pos]

\* Mutant: draw_to paints from the last point without a stroke in progress.
draw_to_WithoutStroke(w, pos) ==
    LET w1 == [w EXCEPT !.did.point = pos]
    IN  [w1 EXCEPT !._image.segments = @ + 1,
                   !.did.segment = [from |-> w1._last_point, to |-> pos,
                                    size |-> w1._brush_size,
                                    color |-> w1._brush_color],
                   !._last_point = pos]

\* FloatingWindow.draw_to
draw_to(w, pos) ==
    LET w1 == [w EXCEPT !.did.point = pos]
    IN  IF ~w1._drawing \/ w1._last_point = None THEN w1
        ELSE [w1 EXCEPT !._image.segments = @ + 1,
                        !.did.segment = [from |-> w1._last_point, to |-> pos,
                                         size |-> w1._brush_size,
                                         color |-> w1._brush_color],
                        !._last_point = pos]

\* FloatingWindow._close_color_popup
_close_color_popup(w) == [w EXCEPT !._color_popup = None]

\* FloatingWindow._show_color_popup: a new popup, shown.
_show_color_popup(w) ==
    [w EXCEPT !._color_popup = [visible |-> TRUE, current |-> w._brush_color]]

\* Mutant: switching the pen off leaves the stroke in progress.
_set_pen_active_KeepsStroke(w, active) ==
    [w EXCEPT !._pen_active = active,
              !._pen_button_checked = active,
              !._canvas._pen_active = active]

\* FloatingWindow._set_pen_active
_set_pen_active(w, active) ==
    LET w1 == [w EXCEPT !._pen_active = active,
                        !._pen_button_checked = active,
                        !._canvas._pen_active = active]
    IN  IF ~active THEN end_draw(w1) ELSE w1

\* FloatingWindow._toggle_pen
_toggle_pen(w) ==
    LET w1 == _set_pen_active(w, w._pen_button_checked)
    IN  IF w1._pen_active THEN _show_color_popup(w1) ELSE _close_color_popup(w1)

\* Mutant: hiding the toolbar leaves the pen and the popup as they are.
_toggle_toolbar_KeepsPen(w) ==
    [w EXCEPT !._toolbar_visible = ~w._toolbar_visible]

\* FloatingWindow._toggle_toolbar
_toggle_toolbar(w) ==
    LET w1 == [w EXCEPT !._toolbar_visible = ~w._toolbar_visible]
    IN  IF ~w1._toolbar_visible
        THEN _close_color_popup(_set_pen_active(w1, FALSE))
        ELSE w1

\* Mutant: Escape closes the window whatever the mode.
_handle_escape_ClosesAtOnce(w) ==
    close(w)

\* FloatingWindow._handle_escape
_handle_escape(w) ==
    IF w._pen_active \/ w._toolbar_visible
    THEN _close_color_popup([_set_pen_active(w, FALSE) EXCEPT !._toolbar_visible = FALSE])
    ELSE close(w)

\* FloatingWindow._set_brush_color
_set_brush_color(w, color) ==
    [w EXCEPT !._brush_color = color, !._size_button._color = color]

\* FloatingWindow._on_brush_size_changed
_on_brush_size_changed(w, size) == [w EXCEPT !._brush_size = size]

\* The bounds of the scale.
MinScale == Real(2, 1)
MaxScale == Real(5, 0)

\* max(0.2, min(5.0, s))
ClampScale(s) ==
    LET upper == IF RealLess(MaxScale, s) THEN MaxScale ELSE s
    IN  IF RealLess(upper, MinScale) THEN MinScale ELSE upper

\* The factor of a wheel notch, in tenths: 1.1 up, 0.9 down.
WheelFactor(delta) == IF delta > 0 THEN 11 ELSE 9

\* FloatingWindow._apply_scale
_apply_scale(w) ==
    LET new_size == << IntOfProduct(w._base_pixmap.w, w._scale),
                       IntOfProduct(w._base_pixmap.h, w._scale) >>
    IN  IF new_size[1] < 1 \/ new_size[2] < 1 THEN w
        ELSE [w EXCEPT !._canvas._scale = w._scale, !._canvas.size = new_size]

\* Mutant: wheelEvent without its guard on the pen.
FloatingWindow_wheelEvent_InPenMode(w, delta) ==
    IF delta = 0 THEN w
    ELSE _apply_scale([w EXCEPT
             !._scale = ClampScale(RealTimesTenths(w._scale, WheelFactor(delta)))])

\* FloatingWindow.wheelEvent
FloatingWindow_wheelEvent(w, delta) ==
    IF w._pen_active THEN w
    ELSE IF delta = 0 THEN w
    ELSE _apply_scale([w EXCEPT
             !._scale = ClampScale(RealTimesTenths(w._scale, WheelFactor(delta)))])

\* FloatingWindow.mousePressEvent
FloatingWindow_mousePressEvent(w, button, local_pos) ==
    IF button # LeftButton THEN w
    ELSE IF w._pen_active THEN w
    ELSE _begin_drag(w, local_pos)

\* FloatingWindow.mouseMoveEvent
FloatingWindow_mouseMoveEvent(w) ==
    IF w._drag_offset = None THEN w ELSE _perform_drag(w)

\* FloatingWindow.mouseReleaseEvent
FloatingWindow_mouseReleaseEvent(w, button) ==
    IF button = LeftButton THEN [w EXCEPT !._drag_offset = None] ELSE w

\* FloatingWindow.keyPressEvent, and the Escape and Space shortcuts, which
\* call the same two methods.
FloatingWindow_keyPressEvent(w, key) ==
    IF key = Key_Escape THEN _handle_escape(w)
    ELSE IF key = Key_Space THEN _toggle_toolbar(w)
    ELSE w

\* Mutant: the clipboard gets the capture as it was cut, without the strokes.
copy_to_clipboard_BasePixmap(w) ==
    [w |-> w._base_pixmap.w, h |-> w._base_pixmap.h, segments |-> 0]

\* FloatingWindow.copy_to_clipboard: the image handed to the clipboard.
copy_to_clipboard(w) == w._image

\* Mutant: the coordinate is clamped at 0 only.
MapCoordinate_NoUpperClamp(v, scale, extent) ==
    Max(0, IntOfQuotient(v, scale))

\* One coordinate of CanvasWidget._map_to_image for an image extent.
MapCoordinate(v, scale, extent) == Max(0, Min(extent - 1, IntOfQuotient(v, scale)))

\* CanvasWidget._map_to_image
_map_to_image(w, point) ==
    IF ~RealLess(Real(0, 0), w._canvas._scale) THEN point
    ELSE << MapCoordinate(point[1], w._canvas._scale, w._image.w),
            MapCoordinate(point[2], w._canvas._scale, w._image.h) >>

\* CanvasWidget.mousePressEvent
CanvasWidget_mousePressEvent(w, button, pos) ==
    IF button # LeftButton THEN w
    ELSE IF w._canvas._pen_active THEN start_draw(w, _map_to_image(w, pos))
    ELSE _begin_drag(w, pos)

\* CanvasWidget.mouseMoveEvent
CanvasWidget_mouseMoveEvent(w, pos) ==
    IF w._canvas._pen_active THEN draw_to(w, _map_to_image(w, pos))
    ELSE _perform_drag(w)

\* CanvasWidget.mouseReleaseEvent
CanvasWidget_mouseReleaseEvent(w, button) ==
    IF button # LeftButton THEN w
    ELSE IF w._canvas._pen_active THEN end_draw(w)
    ELSE [w EXCEPT !._drag_offset = None]

\* The brush sizes the size button allows.
MinBrush == 1
MaxBrush == 40

\* Mutant: the size button steps without the clamp.
SizeButton_wheelEvent_Unclamped(w, delta) ==
    IF delta = 0 THEN w
    ELSE LET step == IF delta > 0 THEN 1 ELSE -1
             size == w._size_button._size + step
         IN  _on_brush_size_changed([w EXCEPT !._size_button._size = size], size)

\* SizeButton.wheelEvent, with the slot of its sizeChanged signal.
SizeButton_wheelEvent(w, delta) ==
    IF delta = 0 THEN w
    ELSE LET step == IF delta > 0 THEN 1 ELSE -1
             size == Max(MinBrush, Min(MaxBrush, w._size_button._size + step))
         IN  _on_brush_size_changed([w EXCEPT !._size_button._size = size], size)

\* ColorPopup._select, with the slot of its colorSelected signal; the popup
\* closes itself, and the window keeps its reference to it.
ColorPopup_select(w, color) ==
    [_set_brush_color(w, color) EXCEPT !._color_popup.visible = FALSE]

\* The pen button is clicked: the checkable button flips, then _toggle_pen.
PenButton_clicked(w) == _toggle_pen([w EXCEPT !._pen_button_checked = ~@])

-----------------------------------------------------------------------------
(* The floating window's events.                                            *)
(*                                                                          *)
(* pointer is the implicit mouse grab: the buttons held down and the widget *)
(* that received the first press, which receives every move and release     *)
(* until the last button is up.  Mouse tracking is off, so a widget gets    *)
(* moves only while a button is held.  CanvasWidget overrides the three     *)
(* mouse handlers, so its events do not reach FloatingWindow's; those get   *)
(* the presses on the toolbar strip, whose plain QWidget ignores them.      *)

FloatingKeys == {Key_Escape, Key_Space, Key_A}

\* What a handler found when it started.
Snapshot(w) ==
    [open |-> w.open, _pen_active |-> w._pen_active,
     _toolbar_visible |-> w._toolbar_visible, _scale |-> w._scale,
     _drawing |-> w._drawing, _brush_size |-> w._brush_size]

\* The handler of the floating window that ran last, the event it was given
\* and the state it started from.
FwEvent(op, w) ==
    [op |-> op, button |-> "", key |-> "", delta |-> 0, pos |-> None,
     color |-> "", before |-> Snapshot(w)]

\* The window as a handler finds it: nothing done yet.
Entered(w) == [w EXCEPT !.did = NoEffects]

\* The pixmap _handle_capture cut for a window of the given size.
CapturedPixmap(size) == [w |-> size[1], h |-> size[2], ratio4 |-> RatioDen, null |-> FALSE]

\* The application after its first capture, the overlay gone, with its one
\* window in state w after the handler recorded in event.
WindowShown(w, event) ==
    /\ _overlay = None
    /\ _capture_pixmap = None
    /\ _capture_screen = None
    /\ overlays = << [Destroyed(NewOverlay(None, None)) EXCEPT
                         !.emitted = <<Signal("captured", None)>>] >>
    /\ _floating_windows = << NewFloatingWindow(1, w._base_pixmap) >>
    /\ fw = w
    /\ ev = event
    /\ pointer = [held |-> {}, target |-> "none"]
    /\ clipboard = None

\* The window as _show_floating shows it.
FloatInit ==
    \E size \in ImageSizes :
        WindowShown(FloatingWindow(1, CapturedPixmap(size)),
                    FwEvent("__init__", FloatingWindow(1, CapturedPixmap(size))))

RECURSIVE Zoomed(_, _, _)
\* The window after n wheel events of one delta.
Zoomed(w, delta, n) ==
    IF n = 0 THEN w ELSE Zoomed(FloatingWindow_wheelEvent(w, delta), delta, n - 1)

\* The window after some notches of the wheel, all up or all down.
ZoomedInit ==
    \E size \in ImageSizes, delta \in WheelDeltas \ {0}, n \in 0..MaxNotches :
        LET w == FloatingWindow(1, CapturedPixmap(size))
        IN  WindowShown(Zoomed(w, delta, n),
                        IF n = 0 THEN FwEvent("__init__", w)
                        ELSE [FwEvent("FloatingWindow.wheelEvent", Zoomed(w, delta, n - 1))
                                 EXCEPT !.delta = delta])

InCanvas(w, pos) ==
    /\ 0 <= pos[1] /\ pos[1] < w._canvas.size[1]
    /\ 0 <= pos[2] /\ pos[2] < w._canvas.size[2]

Pressed(b, target) == [held |-> pointer.held \cup {b}, target |-> target]

Released(b) ==
    [held |-> pointer.held \ {b},
     target |-> IF pointer.held \ {b} = {} THEN "none" ELSE pointer.target]

\* A press closes a colour popup that is showing (a click outside a popup).
PopupClosedByPress(w) ==
    IF w._color_popup = None THEN w ELSE [w EXCEPT !._color_popup.visible = FALSE]

\* A handler that does not close the window has run.
Handled(w, event) ==
    /\ fw' = w
    /\ ev' = event
    /\ UNCHANGED <<_overlay, _capture_pixmap, _capture_screen, _floating_windows,
                   overlays, clipboard>>

\* Whether the next move over the canvas paints a segment.
Paints(w) == w._canvas._pen_active /\ w._drawing /\ w._last_point # None

CanvasPress ==
    /\ fw.open
    /\ pointer.target \in {"none", "canvas"}
    /\ \E b \in MouseButtons \ pointer.held, pos \in CanvasPoints :
          /\ pointer.target = "none" => InCanvas(fw, pos)
          /\ pointer' = Pressed(b, "canvas")
          /\ Handled(CanvasWidget_mousePressEvent(PopupClosedByPress(Entered(fw)), b, pos),
                     [FwEvent("CanvasWidget.mousePressEvent", fw) EXCEPT
                         !.button = b, !.pos = pos])

CanvasMove ==
    /\ fw.open
    /\ pointer.target = "canvas"
    /\ Paints(fw) => fw._image.segments < MaxSegments
    /\ \E pos \in CanvasPoints :
          /\ UNCHANGED pointer
          /\ Handled(CanvasWidget_mouseMoveEvent(Entered(fw), pos),
                     [FwEvent("CanvasWidget.mouseMoveEvent", fw) EXCEPT !.pos = pos])

CanvasRelease ==
    /\ fw.open
    /\ pointer.target = "canvas"
    /\ \E b \in pointer.held :
          /\ pointer' = Released(b)
          /\ Handled(CanvasWidget_mouseReleaseEvent(Entered(fw), b),
                     [FwEvent("CanvasWidget.mouseReleaseEvent", fw) EXCEPT !.button = b])

WindowPress ==
    /\ fw.open
    /\ pointer.target \in {"none", "window"}
    /\ pointer.target = "none" => fw._toolbar_visible
    /\ \E b \in MouseButtons \ pointer.held, pos \in WindowPoints :
          /\ pointer' = Pressed(b, "window")
          /\ Handled(FloatingWindow_mousePressEvent(PopupClosedByPress(Entered(fw)), b, pos),
                     [FwEvent("FloatingWindow.mousePressEvent", fw) EXCEPT
                         !.button = b, !.pos = pos])

WindowMove ==
    /\ fw.open
    /\ pointer.target = "window"
    /\ UNCHANGED pointer
    /\ Handled(FloatingWindow_mouseMoveEvent(Entered(fw)),
               FwEvent("FloatingWindow.mouseMoveEvent", fw))

WindowRelease ==
    /\ fw.open
    /\ pointer.target = "window"
    /\ \E b \in pointer.held :
          /\ pointer' = Released(b)
          /\ Handled(FloatingWindow_mouseReleaseEvent(Entered(fw), b),
                     [FwEvent("FloatingWindow.mouseReleaseEvent", fw) EXCEPT !.button = b])

\* The widget attribute Qt.WA_DeleteOnClose of a FloatingWindow: __init__ sets
\* window flags and a focus policy and no attribute, so it has Qt's default.
WA_DeleteOnClose == FALSE

\* SnipasteNanoApp._discard_window, the slot of the window's destroyed signal.
_discard_window(windows, id) == SelectSeq(windows, LAMBDA x : x.id # id)

\* The application's list after window w was closed: close() hides the widget,
\* and destroys it, which emits destroyed, only under WA_DeleteOnClose.
AfterClose(windows, w) ==
    IF WA_DeleteOnClose THEN _discard_window(windows, w.id)
    ELSE [windows EXCEPT ![w.id].open = FALSE]

\* A key reaches the window: Escape and Space through their shortcuts or
\* keyPressEvent, which call the same methods.  A closed window gets no more
\* events.
FloatingKey ==
    /\ fw.open
    /\ \E key \in FloatingKeys :
          LET w == FloatingWindow_keyPressEvent(Entered(fw), key)
          IN  /\ fw' = w
              /\ ev' = [FwEvent("FloatingWindow.keyPressEvent", fw) EXCEPT !.key = key]
              /\ pointer' = IF w.open THEN pointer ELSE [held |-> {}, target |-> "none"]
              /\ _floating_windows' = IF w.open THEN _floating_windows
                                       ELSE AfterClose(_floating_windows, w)
              /\ UNCHANGED <<_overlay, _capture_pixmap, _capture_screen, overlays, clipboard>>

\* The pen button is clicked; it is there to click while the toolbar shows.
PenClick ==
    /\ fw.open
    /\ fw._toolbar_visible
    /\ UNCHANGED pointer
    /\ Handled(PenButton_clicked(Entered(fw)), FwEvent("_pen_button.clicked", fw))

\* A colour of the popup is clicked.
ColorSelect ==
    /\ fw.open
    /\ fw._color_popup # None
    /\ fw._color_popup.visible
    /\ UNCHANGED pointer
    /\ \E color \in PopupColors :
          Handled(ColorPopup_select(Entered(fw), color),
                  [FwEvent("ColorPopup._select", fw) EXCEPT !.color = color])

\* The copy button or the copy shortcut.
Copy ==
    /\ fw.open
    /\ clipboard' = copy_to_clipboard(fw)
    /\ fw' = Entered(fw)
    /\ ev' = FwEvent("copy_to_clipboard", fw)
    /\ UNCHANGED <<_overlay, _capture_pixmap, _capture_screen, _floating_windows,
                   overlays, pointer>>

\* The wheel turns over the window.
Wheel ==
    /\ fw.open
    /\ fw._scale.k < MaxNotches
    /\ UNCHANGED pointer
    /\ \E delta \in WheelDeltas :
          Handled(FloatingWindow_wheelEvent(Entered(fw), delta),
                  [FwEvent("FloatingWindow.wheelEvent", fw) EXCEPT !.delta = delta])

\* The wheel turns over the size button, which is in the toolbar.
SizeWheel ==
    /\ fw.open
    /\ fw._toolbar_visible
    /\ UNCHANGED pointer
    /\ \E delta \in WheelDeltas :
          Handled(SizeButton_wheelEvent(Entered(fw), delta),
                  [FwEvent("SizeButton.wheelEvent", fw) EXCEPT !.delta = delta])

\* The gestures and modes of one floating window, at scale 1.0.
NextFloat ==
    \/ CanvasPress \/ CanvasMove \/ CanvasRelease
    \/ WindowPress \/ WindowMove \/ WindowRelease
    \/ FloatingKey \/ PenClick \/ ColorSelect \/ Copy

SpecFloat == FloatInit /\ [][NextFloat]_vars

\* Zooming one floating window, in and out of pen mode.
NextZoom == Wheel \/ FloatingKey \/ PenClick

SpecZoom == FloatInit /\ [][NextZoom]_vars

\* Dragging and drawing on the canvas of a zoomed window.
NextDraw ==
    \/ CanvasPress \/ CanvasMove \/ CanvasRelease
    \/ FloatingKey \/ PenClick

SpecDraw == ZoomedInit /\ [][NextDraw]_vars

\* Setting the brush size and drawing with it.
NextBrush ==
    \/ SizeWheel \/ FloatingKey \/ PenClick
    \/ CanvasPress \/ CanvasMove \/ CanvasRelease

SpecBrush == FloatInit /\ [][NextBrush]_vars

-----------------------------------------------------------------------------
(* Properties of the floating window *)

\* a = b
RealEq(a, b) == BigCmp(BigMulPow10(a.n, b.k), BigMulPow10(b.n, a.k)) = 0

\* The step is a wheel event over the window with the pen inactive.
WheelStep == ev'.op = "FloatingWindow.wheelEvent" /\ ~fw._pen_active

\* min(5.0, s * 1.1)
C6_ScrollUp(s) ==
    IF RealLess(MaxScale, RealTimesTenths(s, 11)) THEN MaxScale
    ELSE RealTimesTenths(s, 11)

\* t = max(0.2, s / 1.1): s / 1.1 < 0.2 exactly when s < 0.22.
C6_IsScrollDown(t, s) ==
    IF RealLess(s, Real(22, 2)) THEN RealEq(t, MinScale)
    ELSE RealEq(RealTimesTenths(t, 11), s)

\* C6: with the pen inactive, a notch up takes the scale s to
\* min(5.0, s * 1.1), so that N notches up from 1.0 give min(5.0, 1.1^N); a
\* notch down takes it to max(0.2, s / 1.1); and a notch up followed by a
\* notch down, neither clamped, returns the scale to what it was.
C6_ScrollUpThenDownReturns ==
    [][WheelStep =>
          /\ ev'.delta > 0 => RealEq(fw'._scale, C6_ScrollUp(fw._scale))
          /\ ev'.delta < 0 => C6_IsScrollDown(fw'._scale, fw._scale)
          /\ ( /\ ev'.delta < 0
               /\ ev.op = "FloatingWindow.wheelEvent"
               /\ ev.delta > 0
               /\ ~ev.before._pen_active
               /\ ~RealLess(MaxScale, RealTimesTenths(ev.before._scale, 11))
               /\ ~RealLess(fw._scale, Real(22, 2)) )
             => RealEq(fw'._scale, ev.before._scale)]_vars

\* The step is an Escape given to the window.
EscapeStep == ev'.op = "FloatingWindow.keyPressEvent" /\ ev'.key = Key_Escape

\* What an Escape that dismisses the pen and the toolbar leaves of w: the
\* modes off, the stroke that pen mode had in progress ended.
C7_Dismissed(w) ==
    [w EXCEPT !._pen_active = FALSE, !._pen_button_checked = FALSE,
              !._canvas._pen_active = FALSE, !._toolbar_visible = FALSE,
              !._color_popup = None, !._drawing = FALSE, !._last_point = None,
              !.did = NoEffects]

\* C7: an Escape while the pen is active or the toolbar is visible leaves the
\* window open and only sets the pen inactive, hides the toolbar and closes
\* the colour popup; an Escape with the toolbar hidden and the pen inactive
\* closes the window, and nothing else closes it; so the Escape that follows
\* an Escape closes the window.
C7_EscapeClosesInTwoStages ==
    [][ /\ EscapeStep =>
              IF fw._pen_active \/ fw._toolbar_visible
              THEN fw'.open /\ fw' = C7_Dismissed(fw)
              ELSE ~fw'.open
        /\ (fw.open /\ ~fw'.open) =>
              EscapeStep /\ ~fw._pen_active /\ ~fw._toolbar_visible
        /\ ( /\ EscapeStep
             /\ ev.op = "FloatingWindow.keyPressEvent"
             /\ ev.key = Key_Escape ) => ~fw'.open ]_vars

\* An Escape found the pen active and the toolbar showing and left the window
\* open, so that the next one closes it.
C7_Witness ==
    /\ ev.op = "FloatingWindow.keyPressEvent"
    /\ ev.key = Key_Escape
    /\ ev.before._pen_active
    /\ ev.before._toolbar_visible
    /\ fw.open
    /\ ~fw._pen_active
    /\ ~fw._toolbar_visible
    /\ fw._color_popup = None

\* C8: a window-move gesture and a stroke are never in progress together:
\* _drag_offset is None or _drawing is False.
C8_DragAndStrokeExclusive == fw._drag_offset = None \/ ~fw._drawing

\* The point lies inside the window's image.
InImage(w, p) ==
    /\ 0 <= p[1] /\ p[1] <= w._image.w - 1
    /\ 0 <= p[2] /\ p[2] <= w._image.h - 1

\* C9: the point the canvas hands to start_draw or draw_to lies inside the
\* image, whatever the pointer position and the scale, and so does
\* _last_point whenever it is set.
C9_MappedPointInsideImage ==
    /\ fw.did.point # None => InImage(fw, fw.did.point)
    /\ fw._last_point # None => InImage(fw, fw._last_point)

\* A move left of and below the canvas of a window zoomed out was mapped and
\* became the stroke's last point.
C9_Witness ==
    /\ ev.op = "CanvasWidget.mouseMoveEvent"
    /\ ev.pos = <<-3, 7>>
    /\ RealLess(fw._canvas._scale, Real(1, 0))
    /\ fw.did.point # None
    /\ fw._last_point = fw.did.point

\* C11: a window closed by Escape is no longer retained in
\* _floating_windows: every window the application retains is open.
C11_RetainedWindowsAreOpen ==
    \A i \in DOMAIN _floating_windows : _floating_windows[i].open

\* The step is an invocation of copy_to_clipboard.
CopyStep == ev'.op = "copy_to_clipboard"

\* C12: copy_to_clipboard can be invoked in every state of an open window,
\* leaves every piece of the window's state as it was, and hands the clipboard
\* the image as it is at that moment, with every segment painted so far.
C12_CopyReadsImageOnly ==
    /\ [](fw.open => ENABLED Copy)
    /\ [][CopyStep =>
              /\ fw' = Entered(fw)
              /\ clipboard' = fw._image
              /\ clipboard'.segments = fw'._image.segments]_vars

\* The image was copied with a segment painted in it, during a stroke.
C12_Witness ==
    /\ ev.op = "copy_to_clipboard"
    /\ clipboard # None
    /\ clipboard.segments > 0
    /\ clipboard = fw._image
    /\ fw._drawing

\* The step is a release of the primary button over the canvas in pen mode,
\* which calls end_draw.
PenReleaseStep ==
    /\ ev'.op = "CanvasWidget.mouseReleaseEvent"
    /\ ev'.button = LeftButton
    /\ fw._canvas._pen_active

\* C13: end_draw twice gives what end_draw once gives, which is the state with
\* _drawing False and _last_point None and everything else as it was; with no
\* stroke active end_draw changes nothing.
C13_EndDrawIdempotent ==
    /\ [] /\ end_draw(end_draw(fw)) = end_draw(fw)
          /\ end_draw(fw) = [fw EXCEPT !._drawing = FALSE, !._last_point = None]
          /\ (~fw._drawing /\ fw._last_point = None) => end_draw(fw) = fw
    /\ [][PenReleaseStep =>
              /\ fw' = end_draw(Entered(fw))
              /\ end_draw(fw') = fw']_vars

\* A release in pen mode ended a stroke that had painted a segment.
C13_Witness ==
    /\ ev.op = "CanvasWidget.mouseReleaseEvent"
    /\ ev.button = LeftButton
    /\ ev.before._pen_active
    /\ fw._image.segments > 0
    /\ ~fw._drawing
    /\ fw._last_point = None

\* The window after each handler other than wheelEvent, for each input; a
\* colour can be selected only from a popup that exists.
AfterOtherHandlers(w) ==
    {CanvasWidget_mousePressEvent(w, b, pos) : b \in MouseButtons, pos \in CanvasPoints}
    \cup {CanvasWidget_mouseMoveEvent(w, pos) : pos \in CanvasPoints}
    \cup {CanvasWidget_mouseReleaseEvent(w, b) : b \in MouseButtons}
    \cup {FloatingWindow_mousePressEvent(w, b, pos) : b \in MouseButtons, pos \in WindowPoints}
    \cup {FloatingWindow_mouseMoveEvent(w)}
    \cup {FloatingWindow_mouseReleaseEvent(w, b) : b \in MouseButtons}
    \cup {FloatingWindow_keyPressEvent(w, key) : key \in FloatingKeys}
    \cup {PenButton_clicked(w)}
    \cup (IF w._color_popup = None THEN {}
          ELSE {ColorPopup_select(w, color) : color \in PopupColors})
    \cup {SizeButton_wheelEvent(w, delta) : delta \in WheelDeltas}

\* 0.2 <= s <= 5.0
InScaleRange(s) == ~RealLess(s, MinScale) /\ ~RealLess(MaxScale, s)

\* C14: the scale starts at 1.0 and stays in [0.2, 5.0]; a wheel event in pen
\* mode, a wheel event of delta 0 and every other handler leave it as it is,
\* so that it changes only in a wheel event of non-zero delta received with
\* the pen inactive.
C14_ScaleChangesOnlyByWheel ==
    /\ RealEq(fw._scale, Real(1, 0))
    /\ [] /\ InScaleRange(fw._scale)
          /\ \A v \in AfterOtherHandlers(fw) : v._scale = fw._scale
          /\ FloatingWindow_wheelEvent(fw, 0)._scale = fw._scale
          /\ fw._pen_active =>
                \A delta \in WheelDeltas : FloatingWindow_wheelEvent(fw, delta)._scale = fw._scale
    /\ [][fw'._scale # fw._scale =>
              /\ ev'.op = "FloatingWindow.wheelEvent"
              /\ ev'.delta # 0
              /\ ~fw._pen_active]_vars

\* A notch of the wheel in pen mode left a scale other than 1.0 as it was.
C14_Witness ==
    /\ ev.op = "FloatingWindow.wheelEvent"
    /\ ev.delta # 0
    /\ ev.before._pen_active
    /\ fw._scale = ev.before._scale
    /\ ~RealEq(fw._scale, Real(1, 0))

\* C15: pen mode implies a visible toolbar; every step that hides the toolbar
\* also sets the pen inactive and closes the colour popup; and the pen is
\* switched on only by the pen button, with the toolbar showing.
C15_PenModeImpliesToolbar ==
    /\ [](fw._pen_active => fw._toolbar_visible)
    /\ [][ /\ (fw._toolbar_visible /\ ~fw'._toolbar_visible) =>
                 ~fw'._pen_active /\ fw'._color_popup = None
           /\ (~fw._pen_active /\ fw'._pen_active) =>
                 ev'.op = "_pen_button.clicked" /\ fw._toolbar_visible ]_vars

\* Space hid the toolbar of a window in pen mode, and the pen went off.
C15_Witness ==
    /\ ev.op = "FloatingWindow.keyPressEvent"
    /\ ev.key = Key_Space
    /\ ev.before._pen_active
    /\ ev.before._toolbar_visible
    /\ ~fw._toolbar_visible
    /\ ~fw._pen_active
    /\ fw._color_popup = None

\* C16: a stroke is active only in pen mode, and _drawing holds exactly when
\* _last_point is set; start_draw with the pen inactive changes nothing; and
\* every step that switches the pen off ends the stroke in progress.
C16_StrokeOnlyInPenMode ==
    /\ [] /\ fw._drawing => fw._pen_active
          /\ fw._drawing <=> fw._last_point # None
          /\ ~fw._pen_active =>
                \A pos \in CanvasPoints :
                    start_draw(Entered(fw), pos) = [Entered(fw) EXCEPT !.did.point = pos]
    /\ [][(fw._pen_active /\ ~fw'._pen_active) =>
              ~fw'._drawing /\ fw'._last_point = None]_vars

\* The pen was switched off during a stroke, which ended.
C16_Witness ==
    /\ ev.before._pen_active
    /\ ev.before._drawing
    /\ ~fw._pen_active
    /\ ~fw._drawing
    /\ fw._last_point = None
    /\ fw.open

\* The step is a wheel event over the size button.
SizeWheelStep == ev'.op = "SizeButton.wheelEvent"

\* C17: the brush size is an integer in [1, 40]; a notch over the size button
\* changes it by +1 (delta > 0) or -1 (delta < 0), or leaves it at the bound
\* it would pass; and the size the button holds is the window's _brush_size,
\* with which the next segment is painted.
C17_BrushSizeClamped ==
    /\ [] /\ fw._brush_size \in MinBrush..MaxBrush
          /\ fw._size_button._size = fw._brush_size
    /\ [][ /\ SizeWheelStep =>
                 /\ ev'.delta > 0 => fw'._brush_size = Min(MaxBrush, fw._brush_size + 1)
                 /\ ev'.delta < 0 => fw'._brush_size = Max(MinBrush, fw._brush_size - 1)
                 /\ ev'.delta = 0 => fw'._brush_size = fw._brush_size
           /\ ~SizeWheelStep => fw'._brush_size = fw._brush_size
           /\ fw'.did.segment # None =>
                 fw'.did.segment.size = fw._size_button._size ]_vars

\* A notch up found the size at 40 and left it there.
C17_Witness ==
    /\ ev.op = "SizeButton.wheelEvent"
    /\ ev.delta > 0
    /\ ev.before._brush_size = MaxBrush
    /\ fw._brush_size = MaxBrush
    /\ fw._size_button._size = MaxBrush

\* start_capture gave up: no screen, or a null grab.
CaptureAborted == ev.op = "start_capture" /\ ev.outcome \in {"no_screen", "null_grab"}

\* The hotkey starts a capture.
CaptureStarts == Hotkey /\ ev'.outcome = "started"

\* C18: a start_capture that finds no screen or gets a null pixmap leaves the
\* application as it was, with no overlay, no stored pixmap or screen and the
\* same floating windows, and a capture can still be started afterwards; a
\* capture that starts has a screen and a pixmap that is not null.
C18_AbortedCaptureChangesNothing ==
    /\ [](CaptureAborted =>
              /\ _overlay = None
              /\ _capture_pixmap = None
              /\ _capture_screen = None
              /\ ENABLED CaptureStarts)
    /\ [][ /\ CaptureAborted' => UNCHANGED <<appvars, overlays>>
           /\ (ev'.op = "start_capture" /\ ev'.outcome = "started") =>
                 /\ _overlay = None
                 /\ _capture_screen' # None
                 /\ ~_capture_pixmap'.null ]_vars

\* A grab returned a null pixmap while the application had a window: nothing
\* was stored and the window is still there.
C18_Witness ==
    /\ ev.op = "start_capture"
    /\ ev.outcome = "null_grab"
    /\ _overlay = None
    /\ _capture_pixmap = None
    /\ Len(_floating_windows) = 1

\* C19: the image keeps the width and height it was created with; a step
\* changes it only by painting one segment in a move over the canvas during a
\* stroke; the wheel, draw_to without a stroke and every other handler leave
\* it as it is.
C19_ImageChangedOnlyByStroke ==
    /\ [] /\ fw._image.w = fw._base_pixmap.w
          /\ fw._image.h = fw._base_pixmap.h
          /\ \A delta \in WheelDeltas : FloatingWindow_wheelEvent(fw, delta)._image = fw._image
          /\ \A v \in AfterOtherHandlers(fw) :
                v._image # fw._image => fw._drawing /\ fw._pen_active
          /\ ~fw._drawing => \A pos \in CanvasPoints : draw_to(fw, pos)._image = fw._image
    /\ [][fw'._image # fw._image =>
              /\ ev'.op = "CanvasWidget.mouseMoveEvent"
              /\ fw._drawing
              /\ fw._pen_active
              /\ fw'._image = [fw._image EXCEPT !.segments = @ + 1]
              /\ fw'.did.segment # None ]_vars

\* A move during a stroke on a zoomed window painted the second segment.
C19_Witness ==
    /\ ev.op = "CanvasWidget.mouseMoveEvent"
    /\ ev.before._drawing
    /\ fw.did.segment # None
    /\ fw._image.segments = 2
    /\ ~RealEq(fw._scale, Real(1, 0))

\* C20: after every wheel event the scale of the canvas is the scale of the
\* window.
C20_CanvasScaleIsWindowScale ==
    ev.op = "FloatingWindow.wheelEvent" => RealEq(fw._canvas._scale, fw._scale)

\* The step is a pointer move given to the FloatingWindow in pen mode.
PenWindowMoveStep ==
    /\ ev'.op = "FloatingWindow.mouseMoveEvent"
    /\ fw._pen_active

\* C21: while the pen is active _drag_offset is None, whenever the pen was
\* switched on or off, and a pointer move given to the FloatingWindow in pen
\* mode does not call move.
C21_NoDragInPenMode ==
    /\ [](fw._pen_active => fw._drag_offset = None)
    /\ [][PenWindowMoveStep => ~fw'.did.moved]_vars

====
